---- MODULE Spec2Model ----
(***************************************************************************)
(* A model of ntmg (src/ntmg/__init__.py): DatasetDict, one split's named  *)
(* arrays, and Dataset, a mapping of split names to DatasetDicts.          *)
(*                                                                         *)
(* Python objects live in heaps indexed by identity: `dicts` holds the     *)
(* field dictionaries (name -> array, in insertion order), `recs` the      *)
(* DatasetDict objects (a reference to a dictionary and the cached         *)
(* `length`), `cols` the Dataset objects (split name -> DatasetDict id, in *)
(* insertion order).  Arrays are one-dimensional numpy arrays; indexing    *)
(* one with an integer yields a zero-dimensional scalar.  Floating point   *)
(* numbers are fixed-point values with Scale units per 1.0, plus nan and   *)
(* the two infinities numpy produces on division by zero.                  *)
(***************************************************************************)
EXTENDS Integers, Sequences, FiniteSets, TLC

VARIABLES
    dicts,          \* the field dictionaries, by identity
    recs,           \* the DatasetDict objects: [data |-> dictionary id, length]
    cols,           \* the Dataset objects: [data |-> split mapping]
    call,           \* the last call: [op, self, arg]
    ret,            \* the object the last call returned
    err,            \* the error the last call raised, "" for none
    steps,          \* number of calls made
    mapped,         \* history: the DatasetDicts map was called on, and their selections
    selectedFrom    \* history: per Dataset, the Dataset it was selected from, or 0

vars == <<dicts, recs, cols, call, ret, err, steps, mapped, selectedFrom>>

\* ------------------------------------------------------------------ bounds
\* Longest array a caller passes in.
MaxLen == 2
\* Number of calls made on the library in one run.
MaxSteps == 3
\* Fixed-point units per 1.0.
Scale == 100

\* ------------------------------------------------------------------ numbers
Fin(n) == [f |-> "fin", n |-> n]
NaN == [f |-> "nan", n |-> 0]
PInf == [f |-> "inf", n |-> 1]
NInf == [f |-> "inf", n |-> -1]

Sign(n) == IF n < 0 THEN -1 ELSE IF n > 0 THEN 1 ELSE 0

\* a - b on floats
FSub(a, b) ==
    IF a.f = "nan" \/ b.f = "nan" THEN NaN
    ELSE IF a.f = "inf" THEN (IF b.f = "inf" /\ b.n = a.n THEN NaN ELSE a)
    ELSE IF b.f = "inf" THEN [f |-> "inf", n |-> -b.n]
    ELSE Fin(a.n - b.n)

\* a + b on floats
FAdd(a, b) ==
    IF a.f = "nan" \/ b.f = "nan" THEN NaN
    ELSE IF a.f = "inf" THEN (IF b.f = "inf" /\ b.n # a.n THEN NaN ELSE a)
    ELSE IF b.f = "inf" THEN b
    ELSE Fin(a.n + b.n)

\* a / b on floats: numpy does not raise on a zero divisor
FDiv(a, b) ==
    IF a.f = "nan" \/ b.f = "nan" THEN NaN
    ELSE IF b.f = "inf" THEN (IF a.f = "inf" THEN NaN ELSE Fin(0))
    ELSE IF b.n = 0 THEN
        (IF a.f = "inf" THEN a
         ELSE IF a.n = 0 THEN NaN
         ELSE [f |-> "inf", n |-> Sign(a.n)])
    ELSE IF a.f = "inf" THEN [f |-> "inf", n |-> a.n * Sign(b.n)]
    ELSE Fin((a.n * Scale) \div b.n)

RECURSIVE SqrtSearch(_, _, _)
SqrtSearch(x, lo, hi) ==
    IF lo >= hi THEN lo
    ELSE LET mid == (lo + hi + 1) \div 2
         IN  IF mid * mid <= x THEN SqrtSearch(x, mid, hi)
             ELSE SqrtSearch(x, lo, mid - 1)

\* floor of the square root of a natural number
ISqrt(x) == SqrtSearch(x, 0, x)

RECURSIVE FSum(_)
FSum(a) == IF a = <<>> THEN Fin(0) ELSE FAdd(a[1], FSum(Tail(a)))

\* ndarray.mean(): nan for an empty array
Mean(a) ==
    IF Len(a) = 0 THEN NaN
    ELSE LET s == FSum(a)
         IN  IF s.f = "fin" THEN Fin(s.n \div Len(a)) ELSE s

\* ndarray.std(): the population standard deviation, nan for an empty array
Std(a) ==
    IF Len(a) = 0 THEN NaN
    ELSE IF \E i \in 1..Len(a) : a[i].f # "fin" THEN NaN
    ELSE LET m == Mean(a).n
             sq == [i \in 1..Len(a) |-> Fin((a[i].n - m) * (a[i].n - m))]
         IN  Fin(ISqrt(FSum(sq).n \div Len(a)))

\* ------------------------------------------------------------------ arrays
\* A value is a numpy object of nd dimensions: nd = 1 an array with
\* elements a, nd = 0 a scalar (a has one element).
Arr(a) == [nd |-> 1, a |-> a]
Scalar(x) == [nd |-> 0, a |-> <<x>>]

\* (v - mean) / std, elementwise
Normalised(v, mean, std) ==
    [nd |-> v.nd, a |-> [i \in 1..Len(v.a) |-> FDiv(FSub(v.a[i], mean), std)]]

RECURSIVE Compress(_, _)
\* the elements of a where the mask m is true
Compress(a, m) ==
    IF a = <<>> THEN <<>>
    ELSE (IF m[1] THEN <<a[1]>> ELSE <<>>) \o Compress(Tail(a), Tail(m))

\* An index is an integer position ("int", pos = <<i>>), a list of positions
\* ("seq", pos) or a boolean mask ("mask", mask).  Positions are 0-based and
\* negative positions count from the end.
IntIdx(i) == [kind |-> "int", pos |-> <<i>>, mask |-> <<>>]
Positions(s) == [kind |-> "seq", pos |-> s, mask |-> <<>>]
Mask(m) == [kind |-> "mask", pos |-> <<>>, mask |-> m]

InRange(n, i) == -n <= i /\ i < n
At(a, i) == IF i < 0 THEN a[Len(a) + i + 1] ELSE a[i + 1]

\* v[idx]
GetItem(v, idx) ==
    IF v.nd = 0 THEN [err |-> "IndexError", val |-> v]
    ELSE IF idx.kind = "int" THEN
        (IF InRange(Len(v.a), idx.pos[1])
         THEN [err |-> "", val |-> Scalar(At(v.a, idx.pos[1]))]
         ELSE [err |-> "IndexError", val |-> v])
    ELSE IF idx.kind = "seq" THEN
        (IF \A j \in 1..Len(idx.pos) : InRange(Len(v.a), idx.pos[j])
         THEN [err |-> "", val |-> Arr([j \in 1..Len(idx.pos) |-> At(v.a, idx.pos[j])])]
         ELSE [err |-> "IndexError", val |-> v])
    ELSE
        (IF Len(idx.mask) = Len(v.a)
         THEN [err |-> "", val |-> Arr(Compress(v.a, idx.mask))]
         ELSE [err |-> "IndexError", val |-> v])

\* the number of entries an index selects
IndexCount(idx) ==
    IF idx.kind = "int" THEN 1
    ELSE IF idx.kind = "seq" THEN Len(idx.pos)
    ELSE Cardinality({j \in 1..Len(idx.mask) : idx.mask[j]})

\* ------------------------------------------------------------------ dictionaries
\* A field dictionary is a sequence of [k |-> name, v |-> value] with distinct
\* names, in insertion order.  A name is a tuple of characters.
X == <<"X">>
Y == <<"Y">>
aX == <<"a", "X">>

Keys(d) == {d[i].k : i \in 1..Len(d)}
Lookup(d, k) == d[CHOOSE i \in 1..Len(d) : d[i].k = k].v

\* "X" in k
HasX(k) == \E i \in 1..Len(k) : k[i] = "X"

\* ------------------------------------------------------------------ errors
\* Line 24 raises AttributeError for arrays of unequal length; calling
\* .items() on an object that has none raises AttributeError too.
LengthMismatchError == "AttributeError: equal length"
NoItemsError == "AttributeError: items"

\* ------------------------------------------------------------------ DatasetDict
\* len(v): a zero-dimensional value has no len()
PyLen(v) == IF v.nd = 0 THEN [err |-> "TypeError", n |-> 0]
            ELSE [err |-> "", n |-> Len(v.a)]

RECURSIVE InitLoop(_, _, _)
\* the loop of DatasetDict.__init__ from field i on, `length` so far
InitLoop(data, i, length) ==
    IF i > Len(data) THEN [err |-> "", length |-> length]
    ELSE LET n == PyLen(data[i].v)
         IN  IF length = 0 THEN
                 (IF n.err # "" THEN [err |-> n.err, length |-> 0]
                  ELSE InitLoop(data, i + 1, n.n))
             ELSE IF n.err # "" THEN [err |-> n.err, length |-> 0]
             ELSE IF length # n.n THEN [err |-> LengthMismatchError, length |-> 0]
             ELSE InitLoop(data, i + 1, length)

\* DatasetDict.__init__: the error raised, or the cached length
DatasetDict_init_check(data) == InitLoop(data, 1, 0)

RECURSIVE SelectItems(_, _, _)
\* {k: v[idx] for k, v in self.__data.items()}, from field i on
SelectItems(data, idx, i) ==
    IF i > Len(data) THEN [err |-> "", items |-> <<>>]
    ELSE LET g == GetItem(data[i].v, idx)
         IN  IF g.err # "" THEN [err |-> g.err, items |-> <<>>]
             ELSE LET rest == SelectItems(data, idx, i + 1)
                  IN  IF rest.err # "" THEN rest
                      ELSE [err |-> "",
                            items |-> <<[k |-> data[i].k, v |-> g.val]>> \o rest.items]

\* DatasetDict.normalise without the test of line 55: every field is rescaled
DatasetDict_normalise_every(data, mean, std) ==
    [i \in 1..Len(data) |-> [k |-> data[i].k, v |-> Normalised(data[i].v, mean, std)]]

\* DatasetDict.normalise: the dictionary after the loop of lines 54-56
DatasetDict_normalise_data(data, mean, std) ==
    [i \in 1..Len(data) |->
        IF HasX(data[i].k)
        THEN [k |-> data[i].k, v |-> Normalised(data[i].v, mean, std)]
        ELSE data[i]]

\* DatasetDict.__getitem__
DatasetDict_getitem(data, k) ==
    IF k \in Keys(data) THEN [err |-> "", val |-> Lookup(data, k)]
    ELSE [err |-> "KeyError", val |-> Arr(<<>>)]

\* DatasetDict.__len__
DatasetDict_len(data) ==
    LET g == DatasetDict_getitem(data, X)
    IN  IF g.err # "" THEN [err |-> g.err, n |-> 0] ELSE PyLen(g.val)

\* The transforms a caller passes to map.  "identity" returns the dictionary
\* it was given; the others return a new dictionary.
AddOne(v) == [nd |-> v.nd, a |-> [i \in 1..Len(v.a) |-> FAdd(v.a[i], Fin(Scale))]]
DropLast(v) == [nd |-> v.nd, a |-> SubSeq(v.a, 1, Len(v.a) - 1)]
MapFns == {"identity", "add_one", "drop_last_X"}
ApplyFn(fn, data) ==
    IF fn = "add_one"
    THEN [i \in 1..Len(data) |-> [k |-> data[i].k, v |-> AddOne(data[i].v)]]
    ELSE IF fn = "drop_last_X"
    THEN [i \in 1..Len(data) |->
            IF data[i].k = X THEN [k |-> X, v |-> DropLast(data[i].v)] ELSE data[i]]
    ELSE data

\* What a call leaves behind: the error raised ("" for none), the heaps, and
\* the identity of the object returned (0 when the call raised).
Outcome(e, ds, rs, cs, id) ==
    [err |-> e, dicts |-> ds, recs |-> rs, cols |-> cs, id |-> id]

\* DatasetDict(data) for a dictionary the caller has just built: the new
\* object keeps a reference to that dictionary (line 18)
DatasetDict_init(ds, rs, cs, data) ==
    LET chk == DatasetDict_init_check(data)
    IN  IF chk.err # "" THEN Outcome(chk.err, ds, rs, cs, 0)
        ELSE Outcome("", Append(ds, data),
                     Append(rs, [data |-> Len(ds) + 1, length |-> chk.length]),
                     cs, Len(rs) + 1)

\* DatasetDict.select that hands back the receiver's own dictionary when the
\* index keeps every entry, as a view would
DatasetDict_select_view(ds, rs, cs, self, idx) ==
    LET sel == SelectItems(ds[rs[self].data], idx, 1)
    IN  IF sel.err # "" THEN Outcome(sel.err, ds, rs, cs, 0)
        ELSE IF sel.items = ds[rs[self].data]
        THEN Outcome("", ds, Append(rs, rs[self]), cs, Len(rs) + 1)
        ELSE DatasetDict_init(ds, rs, cs, sel.items)

\* DatasetDict.select
DatasetDict_select(ds, rs, cs, self, idx) ==
    LET sel == SelectItems(ds[rs[self].data], idx, 1)
    IN  IF sel.err # "" THEN Outcome(sel.err, ds, rs, cs, 0)
        ELSE DatasetDict_init(ds, rs, cs, sel.items)

\* DatasetDict.map
DatasetDict_map(ds, rs, cs, self, fn) ==
    IF fn = "identity" THEN Outcome("", ds, rs, cs, self)
    ELSE Outcome("", Append(ds, ApplyFn(fn, ds[rs[self].data])),
                 [rs EXCEPT ![self].data = Len(ds) + 1], cs, self)

\* DatasetDict.normalise that returns a new DatasetDict around the rescaled
\* dictionary instead of self
DatasetDict_normalise_fresh(ds, rs, cs, self, mean, std) ==
    Outcome("",
            [ds EXCEPT ![rs[self].data] = DatasetDict_normalise_data(@, mean, std)],
            Append(rs, rs[self]), cs, Len(rs) + 1)

\* DatasetDict.normalise
DatasetDict_normalise(ds, rs, cs, self, mean, std) ==
    Outcome("",
            [ds EXCEPT ![rs[self].data] = DatasetDict_normalise_data(@, mean, std)],
            rs, cs, self)

\* DatasetDict.normalize
DatasetDict_normalize(ds, rs, cs, self, mean, std) ==
    DatasetDict_normalise(ds, rs, cs, self, mean, std)

\* ------------------------------------------------------------------ Dataset
\* A Dataset's mapping is a sequence of [k |-> split name, v |-> DatasetDict
\* id].  The mapping given to the constructor holds, per split, either a
\* DatasetDict ([t |-> "rec", id]) or a raw dictionary ([t |-> "raw", f]).
SplitKeys(m) == {m[i].k : i \in 1..Len(m)}
SplitLookup(m, k) == m[CHOOSE i \in 1..Len(m) : m[i].k = k].v

\* np.all([isinstance(v, DatasetDict) for v in data.values()])
AllDatasetDict(m) == \A i \in 1..Len(m) : m[i].v.t = "rec"

RECURSIVE WrapAll(_, _, _, _, _)
\* {k: DatasetDict(v) for k, v in data.items()}, from split i on; the result's
\* id field is unused and `data` collects the new mapping
WrapAll(ds, rs, m, i, acc) ==
    IF i > Len(m) THEN [err |-> "", dicts |-> ds, recs |-> rs, data |-> acc]
    ELSE IF m[i].v.t = "rec"
    THEN [err |-> NoItemsError, dicts |-> ds, recs |-> rs, data |-> acc]
    ELSE LET o == DatasetDict_init(ds, rs, <<>>, m[i].v.f)
         IN  IF o.err # "" THEN [err |-> o.err, dicts |-> ds, recs |-> rs, data |-> acc]
             ELSE WrapAll(o.dicts, o.recs, m, i + 1,
                          Append(acc, [k |-> m[i].k, v |-> o.id]))

\* Dataset.__init__
Dataset_init(ds, rs, cs, m) ==
    IF AllDatasetDict(m)
    THEN Outcome("", ds, rs,
                 Append(cs, [data |-> [i \in 1..Len(m) |-> [k |-> m[i].k, v |-> m[i].v.id]]]),
                 Len(cs) + 1)
    ELSE LET w == WrapAll(ds, rs, m, 1, <<>>)
         IN  IF w.err # "" THEN Outcome(w.err, ds, rs, cs, 0)
             ELSE Outcome("", w.dicts, w.recs, Append(cs, [data |-> w.data]), Len(cs) + 1)

\* Dataset.__getitem__
Dataset_getitem(data, k) ==
    IF k \in SplitKeys(data) THEN [err |-> "", id |-> SplitLookup(data, k)]
    ELSE [err |-> "KeyError", id |-> 0]

\* Dataset.keys
Dataset_keys(data) == [i \in 1..Len(data) |-> data[i].k]

RECURSIVE SelectAllPresent(_, _, _, _, _, _)
\* the comprehension of Dataset.select, skipping the splits this Dataset lacks
SelectAllPresent(ds, rs, data, idx_dict, i, acc) ==
    IF i > Len(idx_dict) THEN [err |-> "", dicts |-> ds, recs |-> rs, data |-> acc]
    ELSE LET g == Dataset_getitem(data, idx_dict[i].k)
         IN  IF g.err # "" THEN SelectAllPresent(ds, rs, data, idx_dict, i + 1, acc)
             ELSE LET o == DatasetDict_select(ds, rs, <<>>, g.id, idx_dict[i].v)
                  IN  IF o.err # ""
                      THEN [err |-> o.err, dicts |-> ds, recs |-> rs, data |-> acc]
                      ELSE SelectAllPresent(o.dicts, o.recs, data, idx_dict, i + 1,
                                            Append(acc, [k |-> idx_dict[i].k,
                                                         v |-> [t |-> "rec", id |-> o.id]]))

RECURSIVE SelectAll(_, _, _, _, _, _)
\* {k: self.__data[k].select(idx) for k, idx in idx_dict.items()}, from i on
SelectAll(ds, rs, data, idx_dict, i, acc) ==
    IF i > Len(idx_dict) THEN [err |-> "", dicts |-> ds, recs |-> rs, data |-> acc]
    ELSE LET g == Dataset_getitem(data, idx_dict[i].k)
         IN  IF g.err # "" THEN [err |-> g.err, dicts |-> ds, recs |-> rs, data |-> acc]
             ELSE LET o == DatasetDict_select(ds, rs, <<>>, g.id, idx_dict[i].v)
                  IN  IF o.err # ""
                      THEN [err |-> o.err, dicts |-> ds, recs |-> rs, data |-> acc]
                      ELSE SelectAll(o.dicts, o.recs, data, idx_dict, i + 1,
                                     Append(acc, [k |-> idx_dict[i].k,
                                                  v |-> [t |-> "rec", id |-> o.id]]))

\* Dataset.select
Dataset_select(ds, rs, cs, self, idx_dict) ==
    LET s == SelectAll(ds, rs, cs[self].data, idx_dict, 1, <<>>)
    IN  IF s.err # "" THEN Outcome(s.err, ds, rs, cs, 0)
        ELSE Dataset_init(s.dicts, s.recs, cs, s.data)

RECURSIVE MapAll(_, _, _, _, _)
\* for v in self.__data.values(): v.map(mapping_fn), from split i on
MapAll(ds, rs, data, fn, i) ==
    IF i > Len(data) THEN [dicts |-> ds, recs |-> rs]
    ELSE LET o == DatasetDict_map(ds, rs, <<>>, data[i].v, fn)
         IN  MapAll(o.dicts, o.recs, data, fn, i + 1)

\* Dataset.map
Dataset_map(ds, rs, cs, self, fn) ==
    LET o == MapAll(ds, rs, cs[self].data, fn, 1)
    IN  Outcome("", o.dicts, o.recs, cs, self)

\* the statistics array, falling back to the first field whose name contains
\* "X" when the train split has no field named "X"
TrainXFallback(ds, rs, data) ==
    LET t == Dataset_getitem(data, "train")
    IN  IF t.err # "" THEN [err |-> t.err, val |-> Arr(<<>>)]
        ELSE LET f == ds[rs[t.id].data]
                 xs == {i \in 1..Len(f) : HasX(f[i].k)}
             IN  IF X \in Keys(f) THEN DatasetDict_getitem(f, X)
                 ELSE IF xs = {} THEN [err |-> "KeyError", val |-> Arr(<<>>)]
                 ELSE [err |-> "", val |-> f[CHOOSE i \in xs : \A j \in xs : i <= j].v]

\* self.__data['train']['X'], the array the statistics are taken from
TrainX(ds, rs, data) ==
    LET t == Dataset_getitem(data, "train")
    IN  IF t.err # "" THEN [err |-> t.err, val |-> Arr(<<>>)]
        ELSE DatasetDict_getitem(ds[rs[t.id].data], X)

RECURSIVE NormaliseAllLocal(_, _, _, _, _, _, _)
\* the comprehension of Dataset.normalise with the statistics taken anew, in
\* each round, from the "X" field of the split being normalised
NormaliseAllLocal(ds, rs, data, mean, std, i, acc) ==
    IF i > Len(data) THEN [dicts |-> ds, recs |-> rs, data |-> acc]
    ELSE LET x == DatasetDict_getitem(ds[rs[data[i].v].data], X)
             m == IF x.err = "" THEN Mean(x.val.a) ELSE mean
             s == IF x.err = "" THEN Std(x.val.a) ELSE std
             o == DatasetDict_normalise(ds, rs, <<>>, data[i].v, m, s)
         IN  NormaliseAllLocal(o.dicts, o.recs, data, mean, std, i + 1,
                               Append(acc, [k |-> data[i].k, v |-> o.id]))

RECURSIVE NormaliseAll(_, _, _, _, _, _, _)
\* {k: v.normalise(mean, std) for k, v in self.__data.items()}, from split i on
NormaliseAll(ds, rs, data, mean, std, i, acc) ==
    IF i > Len(data) THEN [dicts |-> ds, recs |-> rs, data |-> acc]
    ELSE LET o == DatasetDict_normalise(ds, rs, <<>>, data[i].v, mean, std)
         IN  NormaliseAll(o.dicts, o.recs, data, mean, std, i + 1,
                          Append(acc, [k |-> data[i].k, v |-> o.id]))

\* Dataset.normalise
Dataset_normalise(ds, rs, cs, self) ==
    LET x == TrainX(ds, rs, cs[self].data)
    IN  IF x.err # "" THEN Outcome(x.err, ds, rs, cs, 0)
        ELSE LET mean == Mean(x.val.a)
                 std == Std(x.val.a)
                 o == NormaliseAll(ds, rs, cs[self].data, mean, std, 1, <<>>)
             IN  Outcome("", o.dicts, o.recs, [cs EXCEPT ![self].data = o.data], self)

\* Dataset.normalize
Dataset_normalize(ds, rs, cs, self) == Dataset_normalise(ds, rs, cs, self)

\* ------------------------------------------------------------------ inputs
\* The array of n entries a caller passes for a field: 1, 3, 5, ... for "X",
\* 0, 2, 4, ... for "Y" and 2, 4, 6, ... for "aX".
Base(k) == IF k = X THEN 1 ELSE IF k = Y THEN 0 ELSE 2
Ramp(n, base) == [i \in 1..n |-> Fin((base + 2 * (i - 1)) * Scale)]
MkFields(names, lens) ==
    [i \in 1..Len(names) |-> [k |-> names[i], v |-> Arr(Ramp(lens[i], Base(names[i])))]]

\* equal lengths, with and without a field named exactly "X"
Good(n) == MkFields(<<X, Y>>, <<n, n>>)
NoX(n) == MkFields(<<aX, Y>>, <<n, n>>)
\* unequal lengths, neither of them 0
Bad == MkFields(<<X, Y>>, <<MaxLen, 1>>)

\* dictionaries passed to DatasetDict(...)
FieldInputs ==
    {<<>>, Good(1), NoX(MaxLen), Bad}
    \cup {MkFields(<<X, Y>>, l) : l \in [1..2 -> {0, MaxLen}]}
    \cup {MkFields(<<Y, X>>, <<0, MaxLen>>)}

\* indices passed to DatasetDict.select
FirstOnly == Mask([j \in 1..MaxLen |-> j = 1])
Indices ==
    {IntIdx(0), Positions(<<>>), Positions(<<0, 0>>), Positions(<<MaxLen - 1, 0>>),
     FirstOnly, Mask([j \in 1..MaxLen |-> TRUE])}

\* (mean, std) passed to DatasetDict.normalise
NormArgs == {<<Fin(2 * Scale), Fin(Scale)>>, <<Fin(0), Fin(0)>>}

\* mappings passed to Dataset(...)
Raw(f) == [t |-> "raw", f |-> f]
Rec(r) == [t |-> "rec", id |-> r]
RecRefs == {Rec(r) : r \in 1..Len(recs)}
SplitInputs ==
    {<<>>, <<[k |-> "test", v |-> Raw(Good(1))]>>}
    \cup {<<[k |-> "train", v |-> v]>> :
            v \in {Raw(Good(MaxLen)), Raw(NoX(MaxLen))} \cup RecRefs}
    \cup {<<[k |-> "train", v |-> v], [k |-> "test", v |-> w]>> :
            v \in {Raw(Good(MaxLen))} \cup RecRefs,
            w \in {Raw(Good(1)), Raw(Bad)} \cup RecRefs}
    \cup {<<[k |-> "test", v |-> w], [k |-> "train", v |-> v]>> :
            v \in {Raw(Good(MaxLen))}, w \in {Raw(Good(1))}}

\* mappings passed to Dataset.select
SplitIndices == {Positions(<<0>>), FirstOnly}
IndexInputs ==
    {<<>>}
    \cup {<<[k |-> s, v |-> i]>> : s \in {"train", "test"}, i \in SplitIndices}
    \cup {<<[k |-> "train", v |-> i], [k |-> "test", v |-> j]>> :
            i \in SplitIndices, j \in SplitIndices}

\* ------------------------------------------------------------------ behaviour
None == [t |-> "none", id |-> 0]
Obj(t, id) == [t |-> t, id |-> id]

Init ==
    /\ dicts = <<>>
    /\ recs = <<>>
    /\ cols = <<>>
    /\ call = [op |-> "", self |-> 0, arg |-> <<>>]
    /\ ret = None
    /\ err = ""
    /\ steps = 0
    /\ mapped = {}
    /\ selectedFrom = <<>>

\* the DatasetDicts of a Dataset
RecsOf(data) == {data[i].v : i \in 1..Len(data)}

MappedAfter(op, self, arg, o) ==
    IF op = "DatasetDict.map" THEN mapped \cup {self}
    ELSE IF op = "Dataset.map" THEN mapped \cup RecsOf(cols[self].data)
    ELSE IF op = "DatasetDict.select" /\ o.err = "" /\ self \in mapped
    THEN mapped \cup {o.id}
    ELSE IF op = "Dataset.select" /\ o.err = ""
    THEN LET new == o.cols[o.id].data
         IN  mapped \cup {new[j].v : j \in {i \in 1..Len(new) :
                              SplitLookup(cols[self].data, new[i].k) \in mapped}}
    ELSE mapped

SelectedFromAfter(op, self, o) ==
    IF o.err # "" THEN selectedFrom
    ELSE IF op = "Dataset.select" THEN Append(selectedFrom, self)
    ELSE IF op = "Dataset" THEN Append(selectedFrom, 0)
    ELSE selectedFrom

\* One call: its outcome o becomes the state; `t` is the class of the object
\* a successful call returns.
Call(op, self, arg, o, t) ==
    /\ steps < MaxSteps
    /\ steps' = steps + 1
    /\ call' = [op |-> op, self |-> self, arg |-> arg]
    /\ dicts' = o.dicts
    /\ recs' = o.recs
    /\ cols' = o.cols
    /\ err' = o.err
    /\ ret' = IF o.err = "" THEN Obj(t, o.id) ELSE None
    /\ mapped' = MappedAfter(op, self, arg, o)
    /\ selectedFrom' = SelectedFromAfter(op, self, o)

NewDatasetDict(f) ==
    Call("DatasetDict", 0, f, DatasetDict_init(dicts, recs, cols, f), "DatasetDict")

RecSelect(r, idx) ==
    Call("DatasetDict.select", r, idx,
         DatasetDict_select(dicts, recs, cols, r, idx), "DatasetDict")

RecMap(r, fn) ==
    Call("DatasetDict.map", r, fn, DatasetDict_map(dicts, recs, cols, r, fn), "DatasetDict")

RecNormalise(r, ms) ==
    Call("DatasetDict.normalise", r, ms,
         DatasetDict_normalise(dicts, recs, cols, r, ms[1], ms[2]), "DatasetDict")

RecNormalize(r, ms) ==
    Call("DatasetDict.normalize", r, ms,
         DatasetDict_normalize(dicts, recs, cols, r, ms[1], ms[2]), "DatasetDict")

NewDataset(m) ==
    Call("Dataset", 0, m, Dataset_init(dicts, recs, cols, m), "Dataset")

ColSelect(c, idx_dict) ==
    Call("Dataset.select", c, idx_dict,
         Dataset_select(dicts, recs, cols, c, idx_dict), "Dataset")

ColMap(c, fn) ==
    Call("Dataset.map", c, fn, Dataset_map(dicts, recs, cols, c, fn), "Dataset")

ColNormalise(c) ==
    Call("Dataset.normalise", c, <<>>, Dataset_normalise(dicts, recs, cols, c), "Dataset")

ColNormalize(c) ==
    Call("Dataset.normalize", c, <<>>, Dataset_normalize(dicts, recs, cols, c), "Dataset")

RecIds == 1..Len(recs)
ColIds == 1..Len(cols)

\* every call a caller can make, on any object built so far
Next ==
    \/ \E f \in FieldInputs : NewDatasetDict(f)
    \/ \E r \in RecIds, idx \in Indices : RecSelect(r, idx)
    \/ \E r \in RecIds, fn \in MapFns : RecMap(r, fn)
    \/ \E r \in RecIds, ms \in NormArgs : RecNormalise(r, ms)
    \/ \E r \in RecIds, ms \in NormArgs : RecNormalize(r, ms)
    \/ \E m \in SplitInputs : NewDataset(m)
    \/ \E c \in ColIds, idx_dict \in IndexInputs : ColSelect(c, idx_dict)
    \/ \E c \in ColIds, fn \in MapFns : ColMap(c, fn)
    \/ \E c \in ColIds : ColNormalise(c)
    \/ \E c \in ColIds : ColNormalize(c)

Spec == Init /\ [][Next]_vars

\* ------------------------------------------------------------------ properties
FieldsOf(r) == dicts[recs[r].data]
\* the number of entries of a field: a scalar is one entry
EntryCount(v) == IF v.nd = 0 THEN 1 ELSE Len(v.a)
Names(f) == [i \in 1..Len(f) |-> f[i].k]
InputLens(f) == {Len(f[i].v.a) : i \in 1..Len(f)}
\* an index every field of the dictionary accepts
ValidIndex(f, idx) == \A i \in 1..Len(f) : GetItem(f[i].v, idx).err = ""

\* C1: DatasetDict(data) raises the length-mismatch error and returns nothing
\* whenever two fields differ in length, also when one of them is empty, and
\* otherwise succeeds with `length` equal to the common length.
C1_EqualLengthEnforced ==
    call.op = "DatasetDict" =>
        /\ Cardinality(InputLens(call.arg)) > 1 =>
              (err = LengthMismatchError /\ ret = None)
        /\ \A L \in 0..MaxLen :
              InputLens(call.arg) = {L} =>
                  (err = "" /\ ret.t = "DatasetDict" /\ recs[ret.id].length = L)

\* C2: for a valid index, select returns a new DatasetDict with the receiver's
\* field names, each field holding the number of entries the index implies
\* (1 for an integer), and leaves the receiver as it was.
C2_SelectKeepsFieldsAndCounts ==
    [][\A r \in RecIds, idx \in Indices :
          (RecSelect(r, idx) /\ ValidIndex(FieldsOf(r), idx)) =>
              /\ err' = ""
              /\ ret'.t = "DatasetDict"
              /\ ret'.id # r
              /\ Names(dicts'[recs'[ret'.id].data]) = Names(FieldsOf(r))
              /\ \A i \in 1..Len(FieldsOf(r)) :
                    EntryCount(dicts'[recs'[ret'.id].data][i].v) = IndexCount(idx)
              /\ recs'[r] = recs[r]
              /\ dicts'[recs[r].data] = FieldsOf(r)]_vars

RECURSIVE NormaliseTimes(_, _, _, _)
NormaliseTimes(f, mean, std, n) ==
    IF n = 0 THEN f
    ELSE NormaliseTimes(DatasetDict_normalise_data(f, mean, std), mean, std, n - 1)

\* C3: Dataset.normalise takes mean and std once, from the "X" field the
\* train split had before the call, and rescales every split with that pair:
\* each split's dictionary is rescaled with it once per split that holds it.
C3_TrainStatisticsForEverySplit ==
    [][\A c \in ColIds :
          (ColNormalise(c) /\ err' = "") =>
              LET data == cols[c].data
                  x == Lookup(FieldsOf(SplitLookup(data, "train")), X).a
              IN  \A i \in 1..Len(data) :
                      LET d == recs[data[i].v].data
                          n == Cardinality({j \in 1..Len(data) : recs[data[j].v].data = d})
                      IN  dicts'[d] = NormaliseTimes(dicts[d], Mean(x), Std(x), n)]_vars

\* a successful Dataset.normalise of two splits, the test split first, whose
\* train statistics are finite and not those of the test split
C3_Witness ==
    /\ call.op = "Dataset.normalise"
    /\ err = ""
    /\ Names(cols[call.self].data) = <<"test", "train">>
    /\ Lookup(FieldsOf(cols[call.self].data[1].v), X).a = <<Fin(-Scale)>>

\* C4: DatasetDict.normalise(mean, std) replaces each field whose name
\* contains "X" by (value - mean) / std, once, and leaves the other fields,
\* the names, their order and `length` as they were.
C4_NormaliseFrame ==
    [][\A r \in RecIds, ms \in NormArgs :
          RecNormalise(r, ms) =>
              /\ recs'[r] = recs[r]
              /\ Names(dicts'[recs[r].data]) = Names(FieldsOf(r))
              /\ \A i \in 1..Len(FieldsOf(r)) :
                    dicts'[recs[r].data][i].v =
                        IF HasX(FieldsOf(r)[i].k)
                        THEN Normalised(FieldsOf(r)[i].v, ms[1], ms[2])
                        ELSE FieldsOf(r)[i].v]_vars

\* a normalise call with a non-zero std on a DatasetDict holding "aX" and "Y"
C4_Witness ==
    /\ call.op = "DatasetDict.normalise"
    /\ err = ""
    /\ call.arg[2] = Fin(Scale)
    /\ Names(FieldsOf(call.self)) = <<aX, Y>>
    /\ recs[call.self].length = MaxLen
    /\ Lookup(FieldsOf(call.self), Y) = Arr(Ramp(MaxLen, 0))
    /\ Lookup(FieldsOf(call.self), aX) = Arr(Ramp(MaxLen, 0))

\* the state a call of Dataset.select on c leaves c in
OriginalKept(c) ==
    /\ cols'[c] = cols[c]
    /\ \A r \in RecsOf(cols[c].data) :
          recs'[r] = recs[r] /\ dicts'[recs[r].data] = FieldsOf(r)
AbsentKeys(c, idx_dict) ==
    {i \in 1..Len(idx_dict) : idx_dict[i].k \notin SplitKeys(cols[c].data)}
\* the entries of idx_dict before position j all select without error
EarlierSelectsPass(c, idx_dict, j) ==
    \A i \in 1..(j - 1) :
        DatasetDict_select(dicts, recs, cols,
                           SplitLookup(cols[c].data, idx_dict[i].k), idx_dict[i].v).err = ""

\* C5 as stated: a split name of index_by_split that the Dataset lacks makes
\* select fail with a key error; the result has the keys of index_by_split
\* only; the receiver is unchanged either way.
C5_AbsentSplitIsKeyError ==
    [][\A c \in ColIds, idx_dict \in IndexInputs :
          ColSelect(c, idx_dict) =>
              /\ AbsentKeys(c, idx_dict) # {} => (err' = "KeyError" /\ ret' = None)
              /\ err' = "" =>
                    (ret'.t = "Dataset" /\ Names(cols'[ret'.id].data) = Names(idx_dict))
              /\ OriginalKept(c)]_vars

\* C5 amended: a split name of index_by_split that the Dataset lacks makes
\* select fail and return nothing, with a key error unless the select of an
\* entry before the first such name has already raised; the result has the
\* keys of index_by_split only; the receiver is unchanged either way.
C5_AbsentSplitFails ==
    [][\A c \in ColIds, idx_dict \in IndexInputs :
          ColSelect(c, idx_dict) =>
              /\ AbsentKeys(c, idx_dict) # {} =>
                    /\ err' # ""
                    /\ ret' = None
                    /\ LET j == CHOOSE i \in AbsentKeys(c, idx_dict) :
                                    \A k \in AbsentKeys(c, idx_dict) : i <= k
                       IN  IF EarlierSelectsPass(c, idx_dict, j)
                           THEN err' = "KeyError"
                           ELSE err' \in {"IndexError", "TypeError", LengthMismatchError}
              /\ err' = "" =>
                    (ret'.t = "Dataset" /\ Names(cols'[ret'.id].data) = Names(idx_dict))
              /\ OriginalKept(c)]_vars

\* a select that names "train" and "test" on a Dataset with a train split
\* only, failing with the key error
C5_Witness ==
    /\ call.op = "Dataset.select"
    /\ err = "KeyError"
    /\ Names(call.arg) = <<"train", "test">>
    /\ Names(cols[call.self].data) = <<"train">>

\* C6: Dataset.normalise raises the key error when there is no "train" split
\* or the train split has no field named "X", and then changes nothing.
C6_NormaliseNeedsTrainX ==
    [][\A c \in ColIds :
          (/\ ColNormalise(c)
           /\ \/ "train" \notin SplitKeys(cols[c].data)
              \/ X \notin Keys(FieldsOf(SplitLookup(cols[c].data, "train")))) =>
              /\ err' = "KeyError"
              /\ ret' = None
              /\ dicts' = dicts
              /\ recs' = recs
              /\ cols' = cols]_vars

\* a failed normalise on a Dataset whose train split holds "aX" but no "X"
C6_Witness ==
    /\ call.op = "Dataset.normalise"
    /\ err = "KeyError"
    /\ "train" \in SplitKeys(cols[call.self].data)
    /\ aX \in Keys(FieldsOf(SplitLookup(cols[call.self].data, "train")))

\* C7: Dataset(data) stores a mapping of DatasetDicts as it is and otherwise
\* wraps every raw dictionary; after success every split name of the input
\* looks up a DatasetDict; the only failure is the length-mismatch error.
C7_ConstructionAcceptsBoth ==
    call.op = "Dataset" =>
        /\ err \in {"", LengthMismatchError}
        /\ err = "" =>
              /\ ret.t = "Dataset"
              /\ Names(cols[ret.id].data) = Names(call.arg)
              /\ \A i \in 1..Len(call.arg) :
                    /\ cols[ret.id].data[i].v \in RecIds
                    /\ call.arg[i].v.t = "rec" =>
                          cols[ret.id].data[i].v = call.arg[i].v.id

\* C8: map, normalise and normalize return the object they were called on;
\* select returns another object.
C8_SelfOrFresh ==
    err = "" =>
        /\ call.op \in {"DatasetDict.map", "DatasetDict.normalise", "DatasetDict.normalize"}
              => ret = Obj("DatasetDict", call.self)
        /\ call.op \in {"Dataset.map", "Dataset.normalise", "Dataset.normalize"}
              => ret = Obj("Dataset", call.self)
        /\ call.op = "DatasetDict.select" => (ret.t = "DatasetDict" /\ ret.id # call.self)
        /\ call.op = "Dataset.select" => (ret.t = "Dataset" /\ ret.id # call.self)

\* a successful normalise on a Dataset that a select returned
C8_Witness ==
    /\ call.op = "Dataset.normalise"
    /\ err = ""
    /\ ret.id = call.self
    /\ selectedFrom[call.self] # 0

\* the field values of a Dataset, split by split
Values(c) ==
    [i \in 1..Len(cols[c].data) |->
        [k |-> cols[c].data[i].k, f |-> FieldsOf(cols[c].data[i].v)]]
DictsOf(c) == {recs[r].data : r \in RecsOf(cols[c].data)}
\* one of the two was selected from the other
Related(a, b) == selectedFrom[a] = b \/ selectedFrom[b] = a

\* C9: a Dataset that select returned shares no DatasetDict and no dictionary
\* with the Dataset it was selected from, and normalise and map on either of
\* the two leave the field values of the other as they were.
C9_SelectionIsIndependent ==
    [][/\ \A c \in ColIds, o \in ColIds :
             (/\ c # o
              /\ Related(c, o)
              /\ \/ ColNormalise(c)
                 \/ ColNormalize(c)
                 \/ \E fn \in MapFns : ColMap(c, fn)) => Values(o)' = Values(o)
       /\ \A c \in 1..Len(cols') :
             selectedFrom'[c] # 0 =>
                 /\ RecsOf(cols'[c].data) \cap RecsOf(cols'[selectedFrom'[c]].data) = {}
                 /\ {recs'[r].data : r \in RecsOf(cols'[c].data)}
                       \cap {recs'[r].data : r \in RecsOf(cols'[selectedFrom'[c]].data)} = {}
      ]_vars

\* a normalise that changed the values of a selected Dataset
C9_Witness ==
    /\ call.op = "Dataset.normalise"
    /\ err = ""
    /\ selectedFrom[call.self] # 0
    /\ Names(cols[call.self].data) = <<"train", "test">>
    /\ Lookup(Values(call.self)[1].f, X) # Lookup(Values(selectedFrom[call.self])[1].f, X)

\* C10: a DatasetDict with a field "X" that no map has touched has size(),
\* the cached `length` and the entry count of every field all equal.
C10_SizeIsLength ==
    \A r \in RecIds :
        (r \notin mapped /\ X \in Keys(FieldsOf(r))) =>
            /\ DatasetDict_len(FieldsOf(r)) = [err |-> "", n |-> recs[r].length]
            /\ \A i \in 1..Len(FieldsOf(r)) : EntryCount(FieldsOf(r)[i].v) = recs[r].length

====
